---------------------------- MODULE Spec2Model ----------------------------
(* A model of src/pmm_volatility_trend_risk.py: the PMMVolatilityTrendRisk  *)
(* market-making script.  Decimal values are modelled as exact rationals    *)
(* <<numerator, denominator>> in lowest terms with a positive denominator;  *)
(* the Decimal/float NaN is the pair <<0, 0>>.                              *)
EXTENDS Integers, Sequences, FiniteSets, TLC

(***************************************************************************)
(* Decimal arithmetic                                                      *)
(***************************************************************************)
Abs(x) == IF x < 0 THEN -x ELSE x

RECURSIVE GCD(_, _)
GCD(a, b) == IF b = 0 THEN a ELSE GCD(b, a % b)

Rat(n, d) ==
    LET s == IF d < 0 THEN -1 ELSE 1
        g == GCD(Abs(n), Abs(d))
    IN  <<(s * n) \div g, (s * d) \div g>>

NaN == <<0, 0>>
IsNaN(x) == x[2] = 0
Zero == <<0, 1>>
One == <<1, 1>>
Half == <<1, 2>>

RNeg(x) == <<-x[1], x[2]>>
RAdd(x, y) ==
    LET g == GCD(x[2], y[2])
    IN  Rat(x[1] * (y[2] \div g) + y[1] * (x[2] \div g), (x[2] \div g) * y[2])
RSub(x, y) == RAdd(x, RNeg(y))
RMul(x, y) ==
    LET g1 == GCD(Abs(x[1]), y[2])
        g2 == GCD(Abs(y[1]), x[2])
    IN  IF x[1] = 0 \/ y[1] = 0 THEN Zero
        ELSE Rat((x[1] \div g1) * (y[1] \div g2), (x[2] \div g2) * (y[2] \div g1))
RDiv(x, y) == RMul(x, Rat(y[2], y[1]))
RLt(x, y) ==
    LET g == GCD(x[2], y[2])
    IN  x[1] * (y[2] \div g) < y[1] * (x[2] \div g)
RLe(x, y) == ~RLt(y, x)
RGt(x, y) == RLt(y, x)
RGe(x, y) == ~RLt(x, y)
\* Python's min(a, b) returns a unless b < a; max(a, b) returns a unless b > a.
RMin(a, b) == IF RLt(b, a) THEN b ELSE a
RMax(a, b) == IF RGt(b, a) THEN b ELSE a
\* Decimal multiplication: a quiet NaN operand gives NaN.
DMul(x, y) == IF IsNaN(x) \/ IsNaN(y) THEN NaN ELSE RMul(x, y)

(***************************************************************************)
(* Class attributes (configuration)                                        *)
(***************************************************************************)
order_amount == Rat(1, 100)
base_refresh_time == 15
candles_length == 30
bid_spread_scalar == Rat(5, 100)
ask_spread_scalar == Rat(5, 100)
inventory_risk_scalar == Rat(3, 10)
rsi_period == 14
rsi_skew_scalar == Rat(1, 1000)
volatility_scalar == 30
volume_spike_multiplier == 2

(***************************************************************************)
(* Bounds and the values the environment supplies                          *)
(***************************************************************************)
MaxTime == 2

Sides == {"BUY", "SELL"}
\* <<best_bid, best_ask>> of the order book; the mid price is their mean.
Books == {<<Rat(999, 1), Rat(1001, 1)>>, <<Rat(990, 1), Rat(1010, 1)>>}
\* NATR of the latest candle as pandas_ta returns it.
NatrReadings == {Zero, Rat(1, 5), Rat(1, 2)}
\* RSI of the latest candle.
RsiReadings == {Rat(25, 1), Rat(30, 1), Rat(70, 1), Rat(80, 1)}
\* <<latest volume, mean volume of the last candles_length candles>>.
VolumeReadings == {<<10, 10>>, <<20, 10>>, <<30, 10>>}
\* prices at which the exchange reports a fill
FillPrices == {Rat(990, 1), Rat(1010, 1)}
\* <<base, quote>> balances the connector reports
ConnectorBalances == {<<Zero, Zero>>, <<One, Rat(1000, 1)>>}
\* sizes the candle window is observed at
RowCounts == {0, candles_length - 1, candles_length}

VARIABLES
    current_timestamp,      \* the clock value the strategy sees
    ready_to_trade,
    candles,                \* TRUE iff self.candles is a feed (not None)
    candles_df,             \* number of rows of candles.candles_df
    create_timestamp,
    order_refresh_time,
    bid_spread,
    ask_spread,
    rsi,
    volume_spike_active,
    manual_base_balance,
    manual_quote_balance,
    use_manual_balances,
    active,                 \* sides with a live order of this strategy
    stop_result,            \* "" while the strategy runs, then what on_stop did
    cycle,                  \* what on_tick did, when the latest step was on_tick
    lastFill                \* the fill handled, when the latest step was a fill

indicators == <<bid_spread, ask_spread, rsi, order_refresh_time, volume_spike_active>>
inventory == <<manual_base_balance, manual_quote_balance, use_manual_balances>>
vars == <<current_timestamp, ready_to_trade, candles, candles_df, create_timestamp,
          indicators, inventory, active, stop_result, cycle, lastFill>>

(***************************************************************************)
(* update_indicators                                                       *)
(***************************************************************************)
\* faulty variant: the interval multiplied by, not divided by, the volatility term
RefreshTime_Multiplied(natr) ==
    IF IsNaN(natr) THEN NaN
    ELSE RMul(Rat(base_refresh_time, 1),
              RAdd(One, RMul(Rat(volatility_scalar, 1), natr)))

\* line 97: the re-quote interval for a NATR reading
RefreshTime(natr) ==
    IF IsNaN(natr) THEN NaN
    ELSE RDiv(Rat(base_refresh_time, 1),
              RAdd(One, RMul(Rat(volatility_scalar, 1), natr)))

\* faulty variant: a latest volume equal to the threshold counts as a spike
VolumeSpike_Inclusive(latest_volume, avg_volume) ==
    latest_volume >= volume_spike_multiplier * avg_volume

\* line 100: the spike flag for the latest and the mean volume
VolumeSpike(latest_volume, avg_volume) ==
    latest_volume > volume_spike_multiplier * avg_volume

NoReading == [natr |-> NaN, rsi |-> NaN, volume |-> <<0, 0>>]

\* What df.ta.natr / df.ta.rsi / the volume column give for a window of `rows`
\* candles.  Below candles_length rows pandas_ta appends no NATR column, so
\* nothing is read; from candles_length rows on the latest NATR and RSI are
\* numbers, or NaN (a warm-up row, a flat window).
NaNReadings ==
    {[natr |-> NaN, rsi |-> Rat(80, 1), volume |-> <<30, 10>>],
     [natr |-> Zero, rsi |-> NaN, volume |-> <<10, 10>>],
     [natr |-> NaN, rsi |-> NaN, volume |-> <<20, 10>>]}

Readings(rows) ==
    IF rows < candles_length THEN {NoReading}
    ELSE [natr : NatrReadings, rsi : RsiReadings, volume : VolumeReadings]
         \cup NaNReadings

\* The indicator fields after update_indicators on a window of `rows` candles
\* with reading rd, from the fields `old`; fault names the exception raised.
update_indicators(rows, rd, old) ==
    IF rows = 0 THEN [old EXCEPT !.fault = ""]
    ELSE IF rows < candles_length THEN [old EXCEPT !.fault = "KeyError"]
    ELSE IF rows < rsi_period THEN
        [old EXCEPT !.fault = "KeyError",
                    !.bid_spread = DMul(rd.natr, bid_spread_scalar),
                    !.ask_spread = DMul(rd.natr, ask_spread_scalar)]
    ELSE [fault |-> "",
          bid_spread |-> DMul(rd.natr, bid_spread_scalar),
          ask_spread |-> DMul(rd.natr, ask_spread_scalar),
          rsi |-> rd.rsi,
          order_refresh_time |-> RefreshTime(rd.natr),
          volume_spike_active |-> VolumeSpike(rd.volume[1], rd.volume[2])]

(***************************************************************************)
(* create_proposal                                                         *)
(***************************************************************************)
\* PriceType.MidPrice of the connector
MidOfBook(book) == RMul(RAdd(book[1], book[2]), Half)

TotalValue(base, quote, ref_price) == RAdd(RMul(base, ref_price), quote)

\* faulty variant: the guard tests total_value for zero only
BaseRatio_NonZeroGuard(base, quote, ref_price) ==
    IF TotalValue(base, quote, ref_price) # Zero
    THEN RDiv(RMul(base, ref_price), TotalValue(base, quote, ref_price))
    ELSE Half

\* line 114
BaseRatio(base, quote, ref_price) ==
    IF RGt(TotalValue(base, quote, ref_price), Zero)
    THEN RDiv(RMul(base, ref_price), TotalValue(base, quote, ref_price))
    ELSE Half

\* line 115
InventorySkew(base_ratio, ref_price) ==
    RMul(RMul(RSub(Half, base_ratio), inventory_risk_scalar), ref_price)

\* faulty variant: the two thresholds themselves count as overbought, oversold
RsiSkew_Inclusive(r, ref_price) ==
    IF RGe(r, Rat(70, 1)) THEN RMul(rsi_skew_scalar, ref_price)
    ELSE IF RLe(r, Rat(30, 1)) THEN RNeg(RMul(rsi_skew_scalar, ref_price))
    ELSE Zero

\* lines 117-121
RsiSkew(r, ref_price) ==
    IF RGt(r, Rat(70, 1)) THEN RMul(rsi_skew_scalar, ref_price)
    ELSE IF RLt(r, Rat(30, 1)) THEN RNeg(RMul(rsi_skew_scalar, ref_price))
    ELSE Zero

\* line 123
MidPrice(ref_price, inventory_skew, rsi_skew) ==
    RAdd(RAdd(ref_price, inventory_skew), rsi_skew)

\* faulty variant: the buy price is clamped with max
ClampBuy_Max(mid_price, spread, best_bid) ==
    RMax(RMul(mid_price, RSub(One, spread)), best_bid)

\* line 133
ClampBuy(mid_price, spread, best_bid) ==
    RMin(RMul(mid_price, RSub(One, spread)), best_bid)

\* faulty variant: the sell price is clamped with min
ClampSell_Min(mid_price, spread, best_ask) ==
    RMin(RMul(mid_price, RAdd(One, spread)), best_ask)

\* line 134
ClampSell(mid_price, spread, best_ask) ==
    RMax(RMul(mid_price, RAdd(One, spread)), best_ask)

\* faulty variant: the spike branch scales the sell price like the buy price
TightenSell_Raises(price, spike) ==
    IF spike THEN RMul(price, Rat(1002, 1000)) ELSE price

\* lines 136-138
TightenBuy(price, spike) == IF spike THEN RMul(price, Rat(1002, 1000)) ELSE price
TightenSell(price, spike) == IF spike THEN RMul(price, Rat(998, 1000)) ELSE price

NoProposal ==
    [fault |-> "", ref_price |-> NaN, base |-> NaN, quote |-> NaN,
     base_ratio |-> NaN, inventory_skew |-> NaN,
     rsi_skew |-> NaN, mid_price |-> NaN, best_bid |-> NaN, best_ask |-> NaN,
     clamp_buy |-> NaN, clamp_sell |-> NaN, buy_price |-> NaN,
     sell_price |-> NaN, amount |-> Zero]

\* lines 106-111: the <<base, quote>> balances create_proposal may read
BalancesRead(manual, base, quote) ==
    IF manual THEN {<<base, quote>>} ELSE ConnectorBalances

\* lines 103-115: the reference price, the balances and the inventory skew
ProposalSkew(book, base, quote) ==
    [NoProposal EXCEPT
       !.ref_price = MidOfBook(book), !.base = base, !.quote = quote,
       !.base_ratio = BaseRatio(base, quote, MidOfBook(book)),
       !.inventory_skew =
           InventorySkew(BaseRatio(base, quote, MidOfBook(book)), MidOfBook(book))]

\* lines 117-131: the momentum skew, the adjusted mid price, the top of book.
\* A NaN rsi raises InvalidOperation in the comparison of line 118.
ProposalMid(ind, book, p) ==
    IF IsNaN(ind.rsi) THEN [p EXCEPT !.fault = "InvalidOperation"]
    ELSE [p EXCEPT
            !.rsi_skew = RsiSkew(ind.rsi, p.ref_price),
            !.mid_price = MidPrice(p.ref_price, p.inventory_skew,
                                   RsiSkew(ind.rsi, p.ref_price)),
            !.best_bid = book[1], !.best_ask = book[2]]

\* lines 133-144: the clamp, the spike tightening, the two candidates.
\* A NaN spread makes the raw price NaN, and min/max raise InvalidOperation.
ProposalPrices(ind, p) ==
    IF p.fault # "" THEN p
    ELSE IF IsNaN(ind.bid_spread) \/ IsNaN(ind.ask_spread)
    THEN [p EXCEPT !.fault = "InvalidOperation"]
    ELSE [p EXCEPT
            !.clamp_buy = ClampBuy(p.mid_price, ind.bid_spread, p.best_bid),
            !.clamp_sell = ClampSell(p.mid_price, ind.ask_spread, p.best_ask),
            !.buy_price = TightenBuy(ClampBuy(p.mid_price, ind.bid_spread, p.best_bid),
                                     ind.volume_spike_active),
            !.sell_price = TightenSell(ClampSell(p.mid_price, ind.ask_spread, p.best_ask),
                                       ind.volume_spike_active),
            !.amount = order_amount]

\* create_proposal: the values it computes from the indicator fields ind, the
\* order book and the balances it reads; fault names the exception raised.
\* (Each stage is computed once and handed to the next as a value.)
create_proposal(ind, book, base, quote) ==
    CHOOSE r \in {ProposalPrices(ind, p2) :
                    p2 \in {ProposalMid(ind, book, p1) :
                              p1 \in {ProposalSkew(book, base, quote)}}} : TRUE

(***************************************************************************)
(* orders                                                                  *)
(***************************************************************************)
Cancel(side) == [op |-> "cancel", side |-> side, price |-> NaN, amount |-> Zero]
Place(side, price, amount) ==
    [op |-> "place", side |-> side, price |-> price, amount |-> amount]

\* cancel_all_orders: one cancel per active order
cancel_all_orders(orders) ==
    (IF "BUY" \in orders THEN <<Cancel("BUY")>> ELSE <<>>)
    \o (IF "SELL" \in orders THEN <<Cancel("SELL")>> ELSE <<>>)

\* adjust_proposal_to_budget: the budget checker (all_or_none) leaves a
\* candidate as it is or sets its amount to zero; prices are not changed.
adjust_proposal_to_budget(p, declined) ==
    [buy_amount |-> IF "BUY" \in declined THEN Zero ELSE p.amount,
     sell_amount |-> IF "SELL" \in declined THEN Zero ELSE p.amount]

\* place_orders: the BUY candidate, then the SELL candidate
place_orders(p, adjusted) ==
    <<Place("BUY", p.buy_price, adjusted.buy_amount),
      Place("SELL", p.sell_price, adjusted.sell_amount)>>

\* faulty variant: the new orders are placed before the stale ones are cancelled
CycleEvents_PlaceFirst(orders, p, adjusted) ==
    place_orders(p, adjusted) \o cancel_all_orders(orders)

\* on_tick lines 76-80: the calls one cycle makes on the exchange, in order
CycleEvents(orders, p, adjusted) ==
    cancel_all_orders(orders) \o place_orders(p, adjusted)

(***************************************************************************)
(* did_fill_order                                                          *)
(***************************************************************************)
\* faulty variant: a SELL fill leaves the quote balance as it was
ApplyFill_SellKeepsQuote(base, quote, side, amount, price) ==
    IF side = "BUY" THEN <<RAdd(base, amount), RSub(quote, RMul(amount, price))>>
    ELSE IF side = "SELL" THEN <<RSub(base, amount), quote>>
    ELSE <<base, quote>>

\* lines 168-174: <<base, quote>> after a fill in manual-balance mode
ApplyFill(base, quote, side, amount, price) ==
    IF side = "BUY" THEN <<RAdd(base, amount), RSub(quote, RMul(amount, price))>>
    ELSE IF side = "SELL" THEN <<RSub(base, amount), RAdd(quote, RMul(amount, price))>>
    ELSE <<base, quote>>

\* faulty variant: the tracked balances follow a fill whatever the switch is
TrackedAfterFill_IgnoresSwitch(manual, base, quote, side, amount, price) ==
    ApplyFill(base, quote, side, amount, price)

\* lines 168-174: the tracked <<base, quote>> after did_fill_order
TrackedAfterFill(manual, base, quote, side, amount, price) ==
    IF manual THEN ApplyFill(base, quote, side, amount, price)
    ELSE <<base, quote>>

(***************************************************************************)
(* The state machine                                                       *)
(***************************************************************************)
NoCycle ==
    [outcome |-> "none", fault |-> "", at |-> 0, events |-> <<>>,
     reading |-> NoReading, proposal |-> NoProposal, declined |-> {}]

NoFill == [side |-> "", amount |-> Zero, price |-> NaN]

\* __init__, lines 44-66, and the class attributes.  candles is FALSE when
\* the candle feed failed to start (line 66).  Line 54 sets
\* use_manual_balances; a deployment that reads the connector's balances
\* clears the attribute before the clock starts.
Init ==
    /\ current_timestamp = 0
    /\ ready_to_trade = FALSE
    /\ candles \in BOOLEAN
    /\ candles_df = 0
    /\ create_timestamp = Zero
    /\ order_refresh_time = Rat(base_refresh_time, 1)
    /\ bid_spread = Rat(1, 1000)
    /\ ask_spread = Rat(1, 1000)
    /\ rsi = Rat(50, 1)
    /\ volume_spike_active = FALSE
    /\ manual_base_balance = Zero
    /\ manual_quote_balance = Zero
    /\ use_manual_balances \in BOOLEAN
    /\ active = {}
    /\ stop_result = ""
    /\ cycle = NoCycle
    /\ lastFill = NoFill

\* faulty variant: the guard does not look at ready_to_trade
TickGuard_IgnoresReady(ready, feed, rows) == feed /\ rows # 0

\* line 73, negated: the cycle may run
TickGuard(ready, feed, rows) == ready /\ feed /\ rows # 0

\* line 75
Due(scheduled, now) == RLe(scheduled, Rat(now, 1))

\* the strategy is on the clock: on_stop has not been called
Running == stop_result = ""

\* The connectors become ready.
BecomeReady ==
    /\ Running
    /\ ~ready_to_trade
    /\ ready_to_trade' = TRUE
    /\ cycle' = NoCycle
    /\ lastFill' = NoFill
    /\ UNCHANGED <<current_timestamp, candles, candles_df, create_timestamp,
                   indicators, inventory, active, stop_result>>

\* The candle feed delivers candles: the window grows.
FeedUpdate ==
    /\ Running
    /\ candles
    /\ \E rows \in RowCounts : rows > candles_df /\ candles_df' = rows
    /\ cycle' = NoCycle
    /\ lastFill' = NoFill
    /\ UNCHANGED <<current_timestamp, ready_to_trade, candles, create_timestamp,
                   indicators, inventory, active, stop_result>>

\* on_tick returns at line 74, or finds no cycle due at line 75.
Skip(now) ==
    /\ cycle' = [NoCycle EXCEPT !.outcome = "skipped", !.at = now]
    /\ lastFill' = NoFill
    /\ UNCHANGED <<ready_to_trade, candles, candles_df, create_timestamp,
                   indicators, inventory, active, stop_result>>

\* faulty variant: the interval is read before update_indicators has run
NextCycleTime_StaleInterval(now, stored, refreshed) == RAdd(Rat(now, 1), stored)

\* line 81: the next create_timestamp of a cycle at time now; order_refresh_time
\* was `stored` when the cycle started and is `refreshed` since line 77 ran
NextCycleTime(now, stored, refreshed) == RAdd(Rat(now, 1), refreshed)

\* on_tick lines 76-81 left by an exception: the orders are cancelled, the
\* indicator fields are as update_indicators left them, nothing is placed and
\* create_timestamp is not advanced.
Abort(now, rd, ind, p) ==
    /\ bid_spread' = ind.bid_spread
    /\ ask_spread' = ind.ask_spread
    /\ rsi' = ind.rsi
    /\ order_refresh_time' = ind.order_refresh_time
    /\ volume_spike_active' = ind.volume_spike_active
    /\ active' = {}
    /\ cycle' = [outcome |-> "fault",
                 fault |-> IF ind.fault # "" THEN ind.fault ELSE p.fault,
                 at |-> now, events |-> cancel_all_orders(active),
                 reading |-> rd, proposal |-> p, declined |-> {}]
    /\ lastFill' = NoFill
    /\ UNCHANGED <<ready_to_trade, candles, candles_df, create_timestamp,
                   inventory, stop_result>>

\* on_tick lines 76-81 run to the end.
Complete(now, rd, ind, p, declined) ==
    /\ bid_spread' = ind.bid_spread
    /\ ask_spread' = ind.ask_spread
    /\ rsi' = ind.rsi
    /\ order_refresh_time' = ind.order_refresh_time
    /\ volume_spike_active' = ind.volume_spike_active
    /\ active' = {s \in Sides : s \notin declined}
    /\ create_timestamp' =
         NextCycleTime(now, order_refresh_time, ind.order_refresh_time)
    /\ cycle' = [outcome |-> "fired", fault |-> "", at |-> now,
                 events |-> CycleEvents(active, p,
                                        adjust_proposal_to_budget(p, declined)),
                 reading |-> rd, proposal |-> p, declined |-> declined]
    /\ lastFill' = NoFill
    /\ UNCHANGED <<ready_to_trade, candles, candles_df, inventory, stop_result>>

\* on_tick lines 76-81 with the values the candle feed, the exchange and the
\* budget checker supply.
Fire(now) ==
    \E rd \in Readings(candles_df) :
    \E ind \in {update_indicators(candles_df, rd,
                  [fault |-> "", bid_spread |-> bid_spread, ask_spread |-> ask_spread,
                   rsi |-> rsi, order_refresh_time |-> order_refresh_time,
                   volume_spike_active |-> volume_spike_active])} :
        IF ind.fault # "" THEN Abort(now, rd, ind, NoProposal)
        ELSE \E book \in Books,
                bal \in BalancesRead(use_manual_balances, manual_base_balance,
                                     manual_quote_balance) :
             \E p \in {create_proposal(ind, book, bal[1], bal[2])} :
                IF p.fault # "" THEN Abort(now, rd, ind, p)
                ELSE \E declined \in SUBSET Sides :
                        Complete(now, rd, ind, p, declined)

\* The clock ticks and calls on_tick (lines 72-81).
on_tick ==
    /\ Running
    /\ current_timestamp < MaxTime
    /\ current_timestamp' = current_timestamp + 1
    /\ IF TickGuard(ready_to_trade, candles, candles_df)
          /\ Due(create_timestamp, current_timestamp + 1)
       THEN Fire(current_timestamp + 1)
       ELSE Skip(current_timestamp + 1)

\* did_fill_order (lines 163-174) for a fill of a live order of the strategy.
did_fill_order(side, amount, price) ==
    /\ Running
    /\ side \in active
    /\ active' = active \ {side}
    /\ lastFill' = [side |-> side, amount |-> amount, price |-> price]
    /\ cycle' = NoCycle
    /\ \E tracked \in {TrackedAfterFill(use_manual_balances, manual_base_balance,
                                         manual_quote_balance, side, amount, price)} :
          /\ manual_base_balance' = tracked[1]
          /\ manual_quote_balance' = tracked[2]
    /\ UNCHANGED <<current_timestamp, ready_to_trade, candles, candles_df,
                   create_timestamp, indicators, use_manual_balances, stop_result>>

Fill == \E side \in Sides, price \in FillPrices : did_fill_order(side, order_amount, price)

\* faulty variant: the feed is stopped without looking at the handle
StopFeed_Unguarded(feed) == IF feed THEN "feed stopped" ELSE "AttributeError"

\* lines 69-70: what on_stop does with the feed handle
StopFeed(feed) == IF feed THEN "feed stopped" ELSE "no feed"

\* on_stop (lines 68-70): the strategy is taken off the clock.
on_stop ==
    /\ Running
    /\ stop_result' = StopFeed(candles)
    /\ cycle' = NoCycle
    /\ lastFill' = NoFill
    /\ UNCHANGED <<current_timestamp, ready_to_trade, candles, candles_df,
                   create_timestamp, indicators, inventory, active>>

Next == BecomeReady \/ FeedUpdate \/ on_tick \/ Fill \/ on_stop

Spec == Init /\ [][Next]_vars

(***************************************************************************)
(* Properties                                                              *)
(***************************************************************************)
Fired == cycle.outcome = "fired"
TickStep == current_timestamp' # current_timestamp
FillStep == lastFill' # NoFill

\* the order of side `side` the fired cycle submitted
Placed(side) ==
    cycle.events[CHOOSE i \in 1..Len(cycle.events) :
                    cycle.events[i].op = "place" /\ cycle.events[i].side = side]

\* C1: every cycle that submits orders submits a BUY price strictly below
\* its SELL price (the code has no DegenerateQuote outcome: a cycle that
\* reaches place_orders submits both orders).
C1_NeverSubmitsCrossedPair ==
    Fired => RLt(Placed("BUY").price, Placed("SELL").price)

\* C2: the tracked base balance and the tracked quote balance are never
\* negative.
C2_BalancesNeverNegative ==
    RGe(manual_base_balance, Zero) /\ RGe(manual_quote_balance, Zero)

\* C3: in every fired cycle (the reference price and the top of book are
\* positive in every cycle) the adjusted mid price, both proposal prices and
\* the amount are positive.
C3_ProposalPositive ==
    Fired => /\ RGt(cycle.proposal.ref_price, Zero)
             /\ RGt(cycle.proposal.mid_price, Zero)
             /\ RGt(cycle.proposal.buy_price, Zero)
             /\ RGt(cycle.proposal.sell_price, Zero)
             /\ RGt(cycle.proposal.amount, Zero)

\* C4: in manual-balance mode every fill step, whatever the schedule and the
\* readiness are, moves (base, quote) by exactly (+amount, -amount*price) for
\* a BUY and (-amount, +amount*price) for a SELL and changes no other field
\* of the strategy; from (0, 1000) a BUY of 1 at 100 gives (1, 900) and a
\* SELL of 1 at 110 after it gives (0, 1010).
C4_FillUpdatesInventory ==
    [][(FillStep /\ use_manual_balances) =>
         /\ lastFill'.side = "BUY" =>
              /\ manual_base_balance' = RAdd(manual_base_balance, lastFill'.amount)
              /\ manual_quote_balance' =
                   RSub(manual_quote_balance, RMul(lastFill'.amount, lastFill'.price))
         /\ lastFill'.side = "SELL" =>
              /\ manual_base_balance' = RSub(manual_base_balance, lastFill'.amount)
              /\ manual_quote_balance' =
                   RAdd(manual_quote_balance, RMul(lastFill'.amount, lastFill'.price))
         /\ lastFill'.side \in Sides
         /\ UNCHANGED <<current_timestamp, ready_to_trade, candles, candles_df,
                        create_timestamp, indicators, use_manual_balances>>
         /\ ApplyFill(Zero, Rat(1000, 1), "BUY", One, Rat(100, 1))
              = <<One, Rat(900, 1)>>
         /\ ApplyFill(One, Rat(900, 1), "SELL", One, Rat(110, 1))
              = <<Zero, Rat(1010, 1)>>]_vars

\* C4 witness: a BUY fill of 0.01 at 990 was applied to the empty inventory
\* while no cycle was due.
C4_Witness ==
    /\ use_manual_balances
    /\ lastFill = [side |-> "BUY", amount |-> order_amount, price |-> Rat(990, 1)]
    /\ manual_base_balance = Rat(1, 100)
    /\ manual_quote_balance = Rat(-99, 10)
    /\ ~Due(create_timestamp, current_timestamp)

\* C5: an on_tick invocation runs a cycle only if the clock has reached
\* create_timestamp, the connector is ready and the feed exists with a
\* non-empty window; any other invocation cancels nothing, places nothing and
\* leaves the indicator fields, the inventory and create_timestamp unchanged.
C5_CycleOnlyWhenDueAndReady ==
    [][TickStep =>
         /\ cycle'.outcome \in {"fired", "fault"} =>
              /\ RLe(create_timestamp, Rat(current_timestamp', 1))
              /\ ready_to_trade /\ candles /\ candles_df > 0
         /\ ~(/\ RLe(create_timestamp, Rat(current_timestamp', 1))
              /\ ready_to_trade /\ candles /\ candles_df > 0) =>
              /\ cycle'.outcome = "skipped"
              /\ cycle'.events = <<>>
              /\ UNCHANGED <<indicators, inventory, create_timestamp, active>>]_vars

\* C5 witness: an invocation was skipped with the connector ready and the
\* window non-empty, because no cycle was due yet.
C5_Witness ==
    /\ cycle.outcome = "skipped"
    /\ ready_to_trade /\ candles /\ candles_df > 0
    /\ RGt(create_timestamp, Rat(current_timestamp, 1))

\* update_indicators ran to its end in the latest step, on a numeric NATR
Refreshed ==
    cycle.outcome \in {"fired", "fault"} /\ ~IsNaN(cycle.reading.natr)

\* NATR values the interval is compared over
NatrGrid == NatrReadings \cup {Rat(1, 100), Rat(1, 20), One, Rat(20, 1)}

\* C6: after every indicator refresh the stored re-quote interval is at
\* least the floor of one time unit.
C6_IntervalAtLeastFloor ==
    Refreshed => RGe(order_refresh_time, One)

\* C7: the interval stored by a refresh is non-increasing in the NATR
\* reading: it is >= the interval of every larger reading and <= the interval
\* of every smaller one, and for a reading of 0 it is base_refresh_time.
C7_IntervalMonotone ==
    Refreshed =>
        /\ \A v \in NatrGrid :
              /\ RLe(cycle.reading.natr, v) => RGe(order_refresh_time, RefreshTime(v))
              /\ RLe(v, cycle.reading.natr) => RLe(order_refresh_time, RefreshTime(v))
        /\ cycle.reading.natr = Zero => order_refresh_time = Rat(base_refresh_time, 1)
        /\ \A v, w \in NatrGrid : RLe(v, w) => RGe(RefreshTime(v), RefreshTime(w))

\* C7 witness: a refresh on a NATR of 1/5 stored the interval 15/7.
C7_Witness ==
    /\ Refreshed
    /\ cycle.reading.natr = Rat(1, 5)
    /\ order_refresh_time = Rat(15, 7)

\* C8: in every cycle that submits orders, a cancel of every order that was
\* active when the cycle started is issued before any order is placed.
C8_CancelBeforePlace ==
    [][(TickStep /\ cycle'.outcome = "fired") =>
         /\ \A side \in active :
              \E i \in 1..Len(cycle'.events) :
                 /\ cycle'.events[i] = Cancel(side)
                 /\ \A j \in 1..Len(cycle'.events) :
                       cycle'.events[j].op = "place" => i < j
         /\ \A i, j \in 1..Len(cycle'.events) :
              (cycle'.events[i].op = "cancel" /\ cycle'.events[j].op = "place")
                 => i < j]_vars

\* C8 witness: a cycle cancelled two stale orders and placed two new ones.
C8_Witness ==
    /\ Fired
    /\ Len(cycle.events) = 4
    /\ cycle.events[1].op = "cancel" /\ cycle.events[2].op = "cancel"
    /\ cycle.events[3].op = "place" /\ cycle.events[4].op = "place"

\* create_proposal computed the inventory skew in the latest step
Skewed == ~IsNaN(cycle.proposal.ref_price)

\* C9: whenever create_proposal computes the skew, a total value <= 0 gives
\* base_ratio exactly 1/2 and inventory_skew 0 (nothing is divided, nothing
\* is raised), and a total value > 0 gives base_ratio = base*ref_price/total.
C9_NeutralRatioOnEmptyPortfolio ==
    Skewed =>
        LET pr == cycle.proposal
            total == RAdd(RMul(pr.base, pr.ref_price), pr.quote)
        IN  /\ RLe(total, Zero) =>
                 /\ pr.base_ratio = Half
                 /\ pr.inventory_skew = Zero
                 /\ cycle.fault \in {"", "InvalidOperation"}
            /\ RGt(total, Zero) =>
                 RMul(pr.base_ratio, total) = RMul(pr.base, pr.ref_price)

\* C9 witness: create_proposal ran on an inventory of negative total value.
C9_Witness ==
    /\ Skewed
    /\ RLt(RAdd(RMul(cycle.proposal.base, cycle.proposal.ref_price),
                cycle.proposal.quote), Zero)
    /\ cycle.proposal.base_ratio = Half

\* C10 as claimed: with both spreads 0 the submitted prices are exactly the
\* best bid and the best ask.
C10_FlatQuotesTopOfBook ==
    (Fired /\ bid_spread = Zero /\ ask_spread = Zero) =>
        /\ RLe(cycle.proposal.best_bid, cycle.proposal.ref_price)
        /\ RLe(cycle.proposal.ref_price, cycle.proposal.best_ask)
        /\ Placed("BUY").price = cycle.proposal.best_bid
        /\ Placed("SELL").price = cycle.proposal.best_ask

\* C10 amended: with both spreads 0 the buy price is min(adjusted mid, best
\* bid) and the sell price is max(adjusted mid, best ask), scaled by 1.002
\* and 0.998 when the spike flag is set; they are exactly the best bid and
\* the best ask when the flag is clear and the adjusted mid lies between them.
C10_FlatQuotesClampedMid ==
    (Fired /\ bid_spread = Zero /\ ask_spread = Zero) =>
        LET pr == cycle.proposal
            lo == IF RLt(pr.mid_price, pr.best_bid) THEN pr.mid_price ELSE pr.best_bid
            hi == IF RGt(pr.mid_price, pr.best_ask) THEN pr.mid_price ELSE pr.best_ask
        IN  /\ Placed("BUY").price =
                 IF volume_spike_active THEN RMul(lo, Rat(501, 500)) ELSE lo
            /\ Placed("SELL").price =
                 IF volume_spike_active THEN RMul(hi, Rat(499, 500)) ELSE hi
            /\ (/\ ~volume_spike_active
                /\ RLe(pr.best_bid, pr.mid_price)
                /\ RLe(pr.mid_price, pr.best_ask)) =>
                   /\ Placed("BUY").price = pr.best_bid
                   /\ Placed("SELL").price = pr.best_ask

\* C10 witness: a flat window, no spike, the adjusted mid inside the book,
\* and the orders at the top of book.
C10_Witness ==
    /\ Fired /\ bid_spread = Zero /\ ask_spread = Zero
    /\ ~volume_spike_active
    /\ RLe(cycle.proposal.best_bid, cycle.proposal.mid_price)
    /\ RLe(cycle.proposal.mid_price, cycle.proposal.best_ask)
    /\ Placed("BUY").price = cycle.proposal.best_bid
    /\ Placed("SELL").price = cycle.proposal.best_ask

\* C11: a cycle that runs update_indicators on a non-empty window shorter
\* than the lookback period (candles_length) leaves the indicator fields as
\* they were and runs to its end without a fault.
C11_ShortWindowKeepsSnapshot ==
    [][(/\ TickStep
        /\ cycle'.outcome \in {"fired", "fault"}
        /\ candles_df < candles_length) =>
           /\ UNCHANGED indicators
           /\ cycle'.outcome = "fired"
           /\ cycle'.fault = ""]_vars

\* create_proposal computed the adjusted mid price in the latest step
Quoted == ~IsNaN(cycle.proposal.mid_price)

\* C12: whenever create_proposal computes the adjusted mid, the momentum skew
\* is +rsi_skew_scalar*ref_price iff rsi > 70, -rsi_skew_scalar*ref_price iff
\* rsi < 30 and 0 for every rsi in [30, 70]; the adjusted mid is ref_price +
\* inventory_skew + momentum skew with inventory_skew = (0.5 - base_ratio) *
\* inventory_risk_scalar * ref_price; rsi 80 at ref_price 100 gives +0.1.
C12_MomentumSkewThresholds ==
    Quoted =>
        LET pr == cycle.proposal
            up == RMul(Rat(1, 1000), pr.ref_price)
        IN  /\ pr.rsi_skew = up <=> rsi[1] > 70 * rsi[2]
            /\ pr.rsi_skew = RNeg(up) <=> rsi[1] < 30 * rsi[2]
            /\ (rsi[1] >= 30 * rsi[2] /\ rsi[1] <= 70 * rsi[2]) => pr.rsi_skew = Zero
            /\ pr.mid_price = RAdd(RAdd(pr.ref_price, pr.inventory_skew), pr.rsi_skew)
            /\ pr.inventory_skew =
                 RMul(RMul(RSub(Half, pr.base_ratio), Rat(3, 10)), pr.ref_price)
            /\ RsiSkew(Rat(80, 1), Rat(100, 1)) = Rat(1, 10)

\* C12 witness: a cycle on an rsi of exactly 70 quoted with no momentum skew
\* around a non-zero inventory skew.
C12_Witness ==
    /\ Fired /\ Quoted
    /\ rsi = Rat(70, 1)
    /\ cycle.proposal.rsi_skew = Zero
    /\ cycle.proposal.inventory_skew # Zero

\* update_indicators ran to its end in the step
RefreshStep == TickStep /\ cycle'.outcome \in {"fired", "fault"}
                        /\ cycle'.fault # "KeyError"

\* C13: every indicator refresh leaves the spike flag true iff the latest
\* volume is strictly greater than volume_spike_multiplier times the mean
\* volume (equality leaves it false), and every step that is not a refresh
\* leaves the flag as it is.
C13_SpikeFlagStrict ==
    [][/\ RefreshStep =>
            /\ volume_spike_active' =
                 (cycle'.reading.volume[1] > 2 * cycle'.reading.volume[2])
            /\ cycle'.reading.volume[1] = 2 * cycle'.reading.volume[2]
                 => ~volume_spike_active'
       /\ ~RefreshStep => UNCHANGED volume_spike_active]_vars

\* C13 witness: a refresh on a latest volume of exactly twice the mean left
\* the flag false.
C13_Witness ==
    /\ Fired
    /\ cycle.reading.volume = <<20, 10>>
    /\ ~volume_spike_active

\* C14: in every cycle that submits orders, the buy price is the clamped
\* price min(mid*(1-bid_spread), best_bid) times 1.002 and the sell price is
\* the clamped price max(mid*(1+ask_spread), best_ask) times 0.998 when the
\* spike flag is set, and exactly the clamped prices when it is clear.
C14_SpikeTightensByFactor ==
    Fired =>
        LET pr == cycle.proposal
            raw_buy == RMul(pr.mid_price, RSub(One, bid_spread))
            raw_sell == RMul(pr.mid_price, RAdd(One, ask_spread))
            plain_buy == IF RLt(pr.best_bid, raw_buy) THEN pr.best_bid ELSE raw_buy
            plain_sell == IF RLt(raw_sell, pr.best_ask) THEN pr.best_ask ELSE raw_sell
        IN  /\ volume_spike_active =>
                 /\ Placed("BUY").price = RMul(plain_buy, Rat(1002, 1000))
                 /\ Placed("SELL").price = RMul(plain_sell, Rat(998, 1000))
            /\ ~volume_spike_active =>
                 /\ Placed("BUY").price = plain_buy
                 /\ Placed("SELL").price = plain_sell

\* C14 witness: a cycle on a spike with a non-zero spread submitted a sell
\* price 0.2% below the clamped one.
C14_Witness ==
    /\ Fired /\ volume_spike_active
    /\ ask_spread # Zero
    /\ Placed("SELL").price = RMul(cycle.proposal.clamp_sell, Rat(998, 1000))
    /\ Placed("SELL").price # cycle.proposal.clamp_sell

\* C15: after every indicator refresh over a window of at least the lookback
\* period the stored momentum is a number in [0, 100] and both stored spreads
\* are numbers >= 0.
C15_MomentumAndSpreadsInRange ==
    (cycle.outcome \in {"fired", "fault"} /\ candles_df >= candles_length) =>
        /\ ~IsNaN(rsi) /\ rsi[1] >= 0 /\ rsi[1] <= 100 * rsi[2]
        /\ ~IsNaN(bid_spread) /\ bid_spread[1] >= 0
        /\ ~IsNaN(ask_spread) /\ ask_spread[1] >= 0

\* C16 as claimed: every submitted buy price is <= the best bid and every
\* submitted sell price is >= the best ask read in that cycle.
C16_RespectsTopOfBook ==
    Fired =>
        /\ RLe(Placed("BUY").price, cycle.proposal.best_bid)
        /\ RLe(cycle.proposal.best_ask, Placed("SELL").price)

\* C16 amended: with the spike flag clear the submitted buy price is <= the
\* best bid and the sell price >= the best ask; with the flag set the buy
\* price is <= 1.002 * best bid and the sell price >= 0.998 * best ask.
C16_RespectsTopOfBookUpToSpikeFactor ==
    Fired =>
        /\ ~volume_spike_active =>
             /\ RLe(Placed("BUY").price, cycle.proposal.best_bid)
             /\ RLe(cycle.proposal.best_ask, Placed("SELL").price)
        /\ volume_spike_active =>
             /\ RLe(Placed("BUY").price,
                    RMul(cycle.proposal.best_bid, Rat(1002, 1000)))
             /\ RLe(RMul(cycle.proposal.best_ask, Rat(998, 1000)),
                    Placed("SELL").price)

\* C16 witness: without a spike, a cycle whose raw sell price was below the
\* best ask submitted the sell order at the best ask.
C16_Witness ==
    /\ Fired /\ ~volume_spike_active
    /\ RLt(RMul(cycle.proposal.mid_price, RAdd(One, ask_spread)),
           cycle.proposal.best_ask)
    /\ Placed("SELL").price = cycle.proposal.best_ask

\* C17: a cycle that fires at time t sets create_timestamp to t plus the
\* interval its own indicator refresh computed; no tick at a time strictly
\* below create_timestamp starts a cycle; create_timestamp never decreases.
C17_NextCycleFromOwnRefresh ==
    [][/\ (TickStep /\ cycle'.outcome = "fired") =>
            LET natr == cycle'.reading.natr
                interval == order_refresh_time'
                next == create_timestamp'
            IN  \* interval = 15 / (1 + 30 * natr)
                /\ interval[1] * (natr[2] + 30 * natr[1]) = 15 * natr[2] * interval[2]
                \* next = current_timestamp' + interval
                /\ next[1] * interval[2] =
                     (current_timestamp' * interval[2] + interval[1]) * next[2]
                /\ interval[2] > 0 /\ next[2] > 0
       /\ (TickStep /\ current_timestamp' * create_timestamp[2] < create_timestamp[1]) =>
            /\ cycle'.outcome = "skipped"
            /\ cycle'.events = <<>>
       /\ create_timestamp[1] * create_timestamp'[2]
            <= create_timestamp'[1] * create_timestamp[2]]_vars

\* C17 witness: a second cycle fired at time 2 on a NATR of 1/5, cancelling
\* the orders of the cycle at time 1 (whose interval was 15/16), and scheduled
\* the next one at 2 + 15/7.
C17_Witness ==
    /\ Fired
    /\ cycle.at = 2
    /\ Len(cycle.events) > 2
    /\ cycle.reading.natr = Rat(1, 5)
    /\ create_timestamp = Rat(29, 7)

\* C18: every cycle that starts (passes the guards and cancels the stale
\* orders) reaches order submission and advances create_timestamp: no cycle
\* is left by a fault, with the orders cancelled and the schedule unchanged.
C18_StartedCycleCompletes ==
    cycle.outcome \in {"fired", "fault"} =>
        /\ cycle.outcome = "fired"
        /\ cycle.fault = ""
        /\ Len(cycle.events) >= 2
        /\ cycle.events[Len(cycle.events)].op = "place"
        /\ RGt(create_timestamp, Rat(cycle.at, 1))

\* C19: when the candle feed failed to start, the feed handle is and stays
\* absent, no step cancels or places an order or changes an indicator field,
\* the schedule or the candle window, every on_tick invocation returns
\* without a cycle, and on_stop completes without touching the feed.
C19_NoFeedNoCycle ==
    [][~candles =>
         /\ ~candles'
         /\ UNCHANGED <<indicators, create_timestamp, active, candles_df>>
         /\ cycle'.outcome \in {"none", "skipped"}
         /\ cycle'.events = <<>>
         /\ TickStep => cycle'.outcome = "skipped"
         /\ lastFill' = NoFill
         /\ stop_result' \in {"", "no feed"}
         /\ stop_result' # stop_result => stop_result' = "no feed"]_vars

\* C19 witness: without a feed, the strategy was ready and ticked, and
\* on_stop then completed without touching the feed.
C19_Witness ==
    /\ ~candles
    /\ ready_to_trade
    /\ current_timestamp >= 2
    /\ active = {} /\ create_timestamp = Zero
    /\ stop_result = "no feed"

\* C20: the tracked balances change only in a fill step in manual-balance
\* mode: with the switch off a fill of either side leaves them unchanged and
\* create_proposal uses balances the connector reports (with the switch on,
\* the tracked ones); no on_tick step, fired or skipped, changes them.
C20_InventoryWrittenOnlyByFills ==
    [][/\ (FillStep /\ ~use_manual_balances) =>
            UNCHANGED <<manual_base_balance, manual_quote_balance>>
       /\ TickStep => UNCHANGED inventory
       /\ (TickStep /\ ~IsNaN(cycle'.proposal.ref_price)) =>
            IF use_manual_balances
            THEN /\ cycle'.proposal.base = manual_base_balance
                 /\ cycle'.proposal.quote = manual_quote_balance
            ELSE <<cycle'.proposal.base, cycle'.proposal.quote>> \in ConnectorBalances
       /\ <<manual_base_balance, manual_quote_balance>>' #
            <<manual_base_balance, manual_quote_balance>> =>
              FillStep /\ use_manual_balances
       /\ UNCHANGED use_manual_balances]_vars

\* C20 witness: with the switch off, a SELL order placed from the connector's
\* balances was filled and the tracked balances are still 0 and 0.
C20_Witness ==
    /\ ~use_manual_balances
    /\ lastFill.side = "SELL"
    /\ manual_base_balance = Zero
    /\ manual_quote_balance = Zero
=============================================================================
